---- MODULE Spec2Model ----
(***************************************************************************)
(* A model of the BML parser, tree API and serializer of bml.go.           *)
(*                                                                         *)
(* A Go string is a sequence of one-character strings, indexed from 0 as   *)
(* in the source (At, Slice).  A *Node is a record Name/Value/Children; a  *)
(* possibly-nil pointer or result is a sequence of length 0 (nil) or 1.    *)
(* A pointer to a node inside a tree is the sequence of child positions    *)
(* that leads to it from the root: the tree owns its nodes exclusively, so *)
(* two pointers are equal exactly when their positions are.                *)
(***************************************************************************)
EXTENDS Integers, Sequences, FiniteSets, TLC

(***************************************************************************)
(* Go strings                                                              *)
(***************************************************************************)
At(s, i) == s[i + 1]

Slice(s, i, j) == SubSeq(s, i + 1, j)

SliceFrom(s, i) == SubSeq(s, i + 1, Len(s))

HasPrefix(s, p) == Len(s) >= Len(p) /\ SubSeq(s, 1, Len(p)) = p

TrimPrefix(s, p) == IF HasPrefix(s, p) THEN SliceFrom(s, Len(p)) ELSE s

RECURSIVE Contains(_, _)
Contains(s, p) ==
  IF Len(s) < Len(p) THEN FALSE
  ELSE IF HasPrefix(s, p) THEN TRUE
  ELSE Contains(Tail(s), p)

RECURSIVE ReplaceAll(_, _, _)
ReplaceAll(s, old, new) ==
  IF s = <<>> THEN <<>>
  ELSE IF HasPrefix(s, old) THEN new \o ReplaceAll(SliceFrom(s, Len(old)), old, new)
  ELSE <<Head(s)>> \o ReplaceAll(Tail(s), old, new)

\* strings.Split(s, sep) for a one-character separator: never empty, "" gives [""]
RECURSIVE SplitFrom(_, _, _)
SplitFrom(s, sep, cur) ==
  IF s = <<>> THEN <<cur>>
  ELSE IF Head(s) = sep THEN <<cur>> \o SplitFrom(Tail(s), sep, <<>>)
  ELSE SplitFrom(Tail(s), sep, Append(cur, Head(s)))

Split(s, sep) == SplitFrom(s, sep, <<>>)

\* the white space of unicode.IsSpace that a TLA+ string can spell
WhiteSpace == {" ", "\t", "\n", "\r", "\f"}

RECURSIVE TrimLeftSet(_, _)
TrimLeftSet(s, cut) ==
  IF s # <<>> /\ Head(s) \in cut THEN TrimLeftSet(Tail(s), cut) ELSE s

RECURSIVE TrimRightSet(_, _)
TrimRightSet(s, cut) ==
  IF s # <<>> /\ s[Len(s)] \in cut THEN TrimRightSet(SubSeq(s, 1, Len(s) - 1), cut) ELSE s

TrimSpace(s) == TrimRightSet(TrimLeftSet(s, WhiteSpace), WhiteSpace)

(***************************************************************************)
(* Line normalizer                                                         *)
(***************************************************************************)
RECURSIVE readDepth(_)
readDepth(line) ==
  IF line # <<>> /\ (Head(line) = "\t" \/ Head(line) = " ")
  THEN 1 + readDepth(Tail(line))
  ELSE 0

RECURSIVE keepLines(_)
keepLines(rawLines) ==
  IF rawLines = <<>> THEN <<>>
  ELSE LET line == Head(rawLines)
           rest == SliceFrom(line, readDepth(line))
       IN IF TrimSpace(line) = <<>> THEN keepLines(Tail(rawLines))
          ELSE IF HasPrefix(rest, <<"/", "/">>) THEN keepLines(Tail(rawLines))
          ELSE <<line>> \o keepLines(Tail(rawLines))

\* a carriage return that no line feed follows is left in its line
normalizeLinesNoCR(input) ==
  keepLines(Split(ReplaceAll(input, <<"\r", "\n">>, <<"\n">>), "\n"))

normalizeLines(input) ==
  LET a == ReplaceAll(input, <<"\r", "\n">>, <<"\n">>)
      b == ReplaceAll(a, <<"\r">>, <<"\n">>)
  IN keepLines(Split(b, "\n"))

(***************************************************************************)
(* Names                                                                   *)
(***************************************************************************)
UpperCase ==
  {"A", "B", "C", "D", "E", "F", "G", "H", "I", "J", "K", "L", "M",
   "N", "O", "P", "Q", "R", "S", "T", "U", "V", "W", "X", "Y", "Z"}

LowerCase ==
  {"a", "b", "c", "d", "e", "f", "g", "h", "i", "j", "k", "l", "m",
   "n", "o", "p", "q", "r", "s", "t", "u", "v", "w", "x", "y", "z"}

Digits == {"0", "1", "2", "3", "4", "5", "6", "7", "8", "9"}

isValidNameChar(c) ==
  c \in UpperCase \/ c \in LowerCase \/ c \in Digits \/ c = "-" \/ c = "."

\* for pos < len(line) && isValidNameChar(line[pos]) { pos++ }
RECURSIVE scanName(_, _)
scanName(line, pos) ==
  IF pos < Len(line) /\ isValidNameChar(At(line, pos)) THEN scanName(line, pos + 1) ELSE pos

(***************************************************************************)
(* Value micro-parser                                                      *)
(***************************************************************************)
NoError == "nil"

ErrUnexpectedEnd == "unexpected end of input"

ErrIndentation == "invalid indentation"

ErrNodeName == "invalid node name"

ErrUnclosedQuote == "unclosed quote"

\* the scan does not look for the comment marker
scanColonEndOfLine(line, end) == IF end < Len(line) THEN Len(line) ELSE end

\* for end < len(line) { if end+1 < len(line) && line[end:end+2] == "//" { break }; end++ }
RECURSIVE scanColonEnd(_, _)
scanColonEnd(line, end) ==
  IF end < Len(line)
  THEN IF end + 1 < Len(line) /\ Slice(line, end, end + 2) = <<"/", "/">>
       THEN end
       ELSE scanColonEnd(line, end + 1)
  ELSE end

\* for end < len(line) && line[end] != '"' { end++ }
RECURSIVE scanQuoteEnd(_, _)
scanQuoteEnd(line, end) ==
  IF end < Len(line) /\ At(line, end) # "\"" THEN scanQuoteEnd(line, end + 1) ELSE end

\* the scan stops at a space only
RECURSIVE scanUnquotedEndAtSpace(_, _)
scanUnquotedEndAtSpace(line, end) ==
  IF end < Len(line) /\ At(line, end) # " " THEN scanUnquotedEndAtSpace(line, end + 1) ELSE end

\* for end < len(line) && line[end] != ' ' && line[end] != '"' { end++ }
RECURSIVE scanUnquotedEnd(_, _)
scanUnquotedEnd(line, end) ==
  IF end < Len(line) /\ At(line, end) # " " /\ At(line, end) # "\""
  THEN scanUnquotedEnd(line, end + 1)
  ELSE end

\* a quote that is not closed takes the rest of the line as the value
parseValueLenient(line, pos) ==
  IF pos >= Len(line) THEN [value |-> <<>>, pos |-> pos, err |-> NoError]
  ELSE IF At(line, pos) = ":" THEN
    LET p1 == pos + 1
        p2 == IF p1 < Len(line) /\ At(line, p1) = " " THEN p1 + 1 ELSE p1
        end == scanColonEnd(line, p2)
    IN [value |-> TrimRightSet(Slice(line, p2, end), {" "}), pos |-> end, err |-> NoError]
  ELSE IF At(line, pos) = "=" THEN
    LET p1 == pos + 1
    IN IF p1 >= Len(line) THEN [value |-> <<>>, pos |-> p1, err |-> NoError]
       ELSE IF At(line, p1) = "\"" THEN
         LET p2 == p1 + 1
             end == scanQuoteEnd(line, p2)
         IN [value |-> Slice(line, p2, end),
             pos |-> IF end >= Len(line) THEN end ELSE end + 1, err |-> NoError]
       ELSE
         LET end == scanUnquotedEnd(line, p1)
         IN [value |-> Slice(line, p1, end), pos |-> end, err |-> NoError]
  ELSE [value |-> <<>>, pos |-> pos, err |-> NoError]

parseValue(line, pos) ==
  IF pos >= Len(line) THEN [value |-> <<>>, pos |-> pos, err |-> NoError]
  ELSE IF At(line, pos) = ":" THEN
    LET p1 == pos + 1
        p2 == IF p1 < Len(line) /\ At(line, p1) = " " THEN p1 + 1 ELSE p1
        end == scanColonEnd(line, p2)
    IN [value |-> TrimRightSet(Slice(line, p2, end), {" "}), pos |-> end, err |-> NoError]
  ELSE IF At(line, pos) = "=" THEN
    LET p1 == pos + 1
    IN IF p1 >= Len(line) THEN [value |-> <<>>, pos |-> p1, err |-> NoError]
       ELSE IF At(line, p1) = "\"" THEN
         LET p2 == p1 + 1
             end == scanQuoteEnd(line, p2)
         IN IF end >= Len(line)
            THEN [value |-> <<>>, pos |-> p2, err |-> ErrUnclosedQuote]
            ELSE [value |-> Slice(line, p2, end), pos |-> end + 1, err |-> NoError]
       ELSE
         LET end == scanUnquotedEnd(line, p1)
         IN [value |-> Slice(line, p1, end), pos |-> end, err |-> NoError]
  ELSE [value |-> <<>>, pos |-> pos, err |-> NoError]

(***************************************************************************)
(* Node parser.  A parseNode result is the node (or nil), the advanced     *)
(* line index, the error, and a log that is not part of the program: one   *)
(* entry per line consumed below the node, naming the line whose node took *)
(* it (as a child or as a continuation of its value).                      *)
(***************************************************************************)
Node(name, value, children) == [Name |-> name, Value |-> value, Children |-> children]

EmptyNode == Node(<<>>, <<>>, <<>>)

RootLine == -1

Taken(line, parent, kind) == [line |-> line, parent |-> parent, kind |-> kind]

\* the line of a node that fails is handed back
parseFailRewind(index, err) ==
  [node |-> <<>>, index |-> IF index > 0 THEN index - 1 ELSE 0, err |-> err, log |-> <<>>]

parseFail(index, err) == [node |-> <<>>, index |-> index, err |-> err, log |-> <<>>]

\* a tab is skipped as a space is
RECURSIVE skipSpacesAndTabs(_, _)
skipSpacesAndTabs(line, pos) ==
  IF pos < Len(line) /\ At(line, pos) \in {" ", "\t"} THEN skipSpacesAndTabs(line, pos + 1)
  ELSE pos

\* for pos < len(line) && line[pos] == ' ' { pos++ }
RECURSIVE skipSpaces(_, _)
skipSpaces(line, pos) ==
  IF pos < Len(line) /\ At(line, pos) = " " THEN skipSpaces(line, pos + 1) ELSE pos

valueAt(line, pos) ==
  IF pos < Len(line) THEN parseValue(line, pos)
  ELSE [value |-> <<>>, pos |-> pos, err |-> NoError]

RECURSIVE attrLoop(_, _, _)
attrLoop(line, pos, children) ==
  IF pos < Len(line) THEN
    LET p1 == skipSpaces(line, pos)
    IN IF p1 >= Len(line) THEN [children |-> children, err |-> NoError]
       ELSE IF p1 + 1 < Len(line) /\ Slice(line, p1, p1 + 2) = <<"/", "/">>
       THEN [children |-> children, err |-> NoError]
       ELSE
         LET p2 == scanName(line, p1)
         IN IF p2 = p1 THEN [children |-> children, err |-> NoError]
            ELSE
              LET pv == valueAt(line, p2)
              IN IF pv.err # NoError THEN [children |-> children, err |-> pv.err]
                 ELSE attrLoop(line, pv.pos,
                               Append(children, Node(Slice(line, p1, p2), pv.value, <<>>)))
  ELSE [children |-> children, err |-> NoError]

\* the continuation text of a line that starts with ':' after its indentation
continuationText(rest) == TrimPrefix(TrimPrefix(rest, <<":">>), <<" ">>)

appendContinuation(value, continuation) ==
  (IF value # <<>> THEN value \o <<"\n">> ELSE value) \o continuation

\* a mis-indented node is let through when it sits exactly at its parent's depth
badIndentationStrict(depth, parentDepth) == depth < parentDepth /\ parentDepth >= 0

\* a child has to be two columns deeper than its parent
badIndentationNext(depth, parentDepth) == depth <= parentDepth + 1 /\ parentDepth >= 0

\* if depth <= parentDepth && parentDepth >= 0 { return nil, "invalid indentation" }
badIndentation(depth, parentDepth) == depth <= parentDepth /\ parentDepth >= 0

RECURSIVE parseNode(_, _, _)
RECURSIVE childLoop(_, _, _, _, _, _)
childLoop(lines, index, depth, node, self, log) ==
  IF index < Len(lines) THEN
    LET childDepth == readDepth(At(lines, index))
    IN IF childDepth <= depth
       THEN [node |-> <<node>>, index |-> index, err |-> NoError, log |-> log]
       ELSE
         LET rest == TrimLeftSet(At(lines, index), {" ", "\t"})
         IN IF HasPrefix(rest, <<":">>)
            THEN childLoop(lines, index + 1, depth,
                           [node EXCEPT !.Value = appendContinuation(@, continuationText(rest))],
                           self, Append(log, Taken(index, self, "continuation")))
            ELSE
              LET r == parseNode(lines, index, depth)
              IN IF r.err # NoError
                 THEN [node |-> <<>>, index |-> r.index, err |-> r.err, log |-> log \o r.log]
                 ELSE childLoop(lines, r.index, depth,
                                [node EXCEPT !.Children = Append(@, r.node[1])],
                                self, (log \o <<Taken(index, self, "child")>>) \o r.log)
  ELSE [node |-> <<node>>, index |-> index, err |-> NoError, log |-> log]

\* a line without a name gives a node with the empty name
parseNodeUnnamed(lines, index, parentDepth) ==
  IF index >= Len(lines) THEN parseFail(index, ErrUnexpectedEnd)
  ELSE
    LET line == At(lines, index)
        depth == readDepth(line)
        pos == scanName(line, depth)
    IN IF badIndentation(depth, parentDepth) THEN parseFail(index + 1, ErrIndentation)
       ELSE
         LET pv == valueAt(line, pos)
         IN IF pv.err # NoError THEN parseFail(index + 1, pv.err)
            ELSE
              LET al == attrLoop(line, pv.pos, <<>>)
              IN IF al.err # NoError THEN parseFail(index + 1, al.err)
                 ELSE childLoop(lines, index + 1, depth,
                                Node(Slice(line, depth, pos), pv.value, al.children),
                                index, <<>>)

parseNode(lines, index, parentDepth) ==
  IF index >= Len(lines) THEN parseFail(index, ErrUnexpectedEnd)
  ELSE
    LET line == At(lines, index)
        depth == readDepth(line)
        pos == scanName(line, depth)
    IN IF badIndentation(depth, parentDepth) THEN parseFail(index + 1, ErrIndentation)
       ELSE IF pos = depth THEN parseFail(index + 1, ErrNodeName)
       ELSE
         LET pv == valueAt(line, pos)
         IN IF pv.err # NoError THEN parseFail(index + 1, pv.err)
            ELSE
              LET al == attrLoop(line, pv.pos, <<>>)
              IN IF al.err # NoError THEN parseFail(index + 1, al.err)
                 ELSE childLoop(lines, index + 1, depth,
                                Node(Slice(line, depth, pos), pv.value, al.children),
                                index, <<>>)

\* on an error the loop hands back the root it has built so far
RECURSIVE topLoopPartial(_, _, _, _)
topLoopPartial(lines, index, root, log) ==
  IF index < Len(lines) THEN
    LET r == parseNode(lines, index, -1)
    IN IF r.err # NoError THEN [doc |-> <<[Root |-> root]>>, err |-> r.err, log |-> log \o r.log]
       ELSE topLoopPartial(lines, r.index, [root EXCEPT !.Children = Append(@, r.node[1])],
                           (log \o <<Taken(index, RootLine, "child")>>) \o r.log)
  ELSE [doc |-> <<[Root |-> root]>>, err |-> NoError, log |-> log]

\* a top-level node takes the place of the ones before it
RECURSIVE topLoopReplace(_, _, _, _)
topLoopReplace(lines, index, root, log) ==
  IF index < Len(lines) THEN
    LET r == parseNode(lines, index, -1)
    IN IF r.err # NoError THEN [doc |-> <<>>, err |-> r.err, log |-> log \o r.log]
       ELSE topLoopReplace(lines, r.index, [root EXCEPT !.Children = <<r.node[1]>>],
                           (log \o <<Taken(index, RootLine, "child")>>) \o r.log)
  ELSE [doc |-> <<[Root |-> root]>>, err |-> NoError, log |-> log]

\* for index < len(lines) { node, err := parseNode(lines, &index, -1); ... }
RECURSIVE topLoop(_, _, _, _)
topLoop(lines, index, root, log) ==
  IF index < Len(lines) THEN
    LET r == parseNode(lines, index, -1)
    IN IF r.err # NoError THEN [doc |-> <<>>, err |-> r.err, log |-> log \o r.log]
       ELSE topLoop(lines, r.index, [root EXCEPT !.Children = Append(@, r.node[1])],
                    (log \o <<Taken(index, RootLine, "child")>>) \o r.log)
  ELSE [doc |-> <<[Root |-> root]>>, err |-> NoError, log |-> log]

Parse(data) ==
  LET lines == normalizeLines(data)
  IN IF Len(lines) = 0 THEN [doc |-> <<[Root |-> EmptyNode]>>, err |-> NoError, log |-> <<>>]
     ELSE topLoop(lines, 0, EmptyNode, <<>>)

(***************************************************************************)
(* Serializer                                                              *)
(***************************************************************************)
Spaces(n) == [i \in 1..n |-> " "]

RECURSIVE valueLines(_, _)
valueLines(lines, depth) ==
  IF lines = <<>> THEN <<>>
  ELSE Spaces((depth + 1) * 2) \o <<":", " ">> \o Head(lines) \o <<"\n">>
       \o valueLines(Tail(lines), depth)

RECURSIVE serializeNode(_, _)
RECURSIVE serializeChildren(_, _)
serializeChildren(children, depth) ==
  IF children = <<>> THEN <<>>
  ELSE serializeNode(Head(children), depth) \o serializeChildren(Tail(children), depth)

\* the children of a node with a multi-line value are not written
serializeNodeSkip(node, depth) ==
  Spaces(depth * 2) \o node.Name
  \o (IF node.Value # <<>>
      THEN IF Contains(node.Value, <<"\n">>)
           THEN <<"\n">> \o valueLines(Split(node.Value, "\n"), depth)
           ELSE <<":", " ">> \o node.Value \o <<"\n">>
      ELSE <<"\n">>)
  \o (IF ~Contains(node.Value, <<"\n">>) \/ node.Value = <<>>
      THEN serializeChildren(node.Children, depth + 1)
      ELSE <<>>)

serializeNode(node, depth) ==
  Spaces(depth * 2) \o node.Name
  \o (IF node.Value # <<>>
      THEN IF Contains(node.Value, <<"\n">>)
           THEN <<"\n">> \o valueLines(Split(node.Value, "\n"), depth)
           ELSE <<":", " ">> \o node.Value \o <<"\n">>
      ELSE <<"\n">>)
  \o (IF ~Contains(node.Value, <<"\n">>) \/ node.Value = <<>>
      THEN serializeChildren(node.Children, depth + 1)
      ELSE serializeChildren(node.Children, depth + 1))

Serialize(doc) ==
  IF doc = <<>> THEN <<>> ELSE serializeChildren(doc[1].Root.Children, 0)

(***************************************************************************)
(* Tree model.  Every operation takes the tree (its root) and the          *)
(* receiver, a possibly-nil pointer into the tree.                         *)
(***************************************************************************)
RECURSIVE NodeAt(_, _)
NodeAt(root, ptr) ==
  IF ptr = <<>> THEN root ELSE NodeAt(root.Children[Head(ptr)], Tail(ptr))

RECURSIVE ReplaceAt(_, _, _)
ReplaceAt(root, ptr, new) ==
  IF ptr = <<>> THEN new
  ELSE [root EXCEPT !.Children[Head(ptr)] = ReplaceAt(@, Tail(ptr), new)]

\* the loop compares the children's values, not their names
RECURSIVE findChildByValue(_, _, _)
findChildByValue(children, part, k) ==
  IF k > Len(children) THEN 0
  ELSE IF children[k].Value = part THEN k
  ELSE findChildByValue(children, part, k + 1)

\* the loop has no break: the last child of that name wins
RECURSIVE findChildLast(_, _, _)
findChildLast(children, part, k) ==
  IF k > Len(children) THEN 0
  ELSE LET later == findChildLast(children, part, k + 1)
       IN IF later # 0 THEN later
          ELSE IF children[k].Name = part THEN k ELSE 0

\* for _, child := range children { if child.Name == part { ...; break } }
\* the position of the child found, 0 when the loop ends without one
RECURSIVE findChild(_, _, _)
findChild(children, part, k) ==
  IF k > Len(children) THEN 0
  ELSE IF children[k].Name = part THEN k
  ELSE findChild(children, part, k + 1)

\* the walk without the "if part == "" { continue }" of the loop
RECURSIVE getLoopNoSkip(_, _, _, _)
getLoopNoSkip(root, parts, i, current) ==
  IF i >= Len(parts) THEN <<current>>
  ELSE
    LET k == findChild(NodeAt(root, current).Children, At(parts, i), 1)
    IN IF k = 0 THEN <<>> ELSE getLoopNoSkip(root, parts, i + 1, Append(current, k))

RECURSIVE getLoop(_, _, _, _)
getLoop(root, parts, i, current) ==
  IF i >= Len(parts) THEN <<current>>
  ELSE IF At(parts, i) = <<>> THEN getLoop(root, parts, i + 1, current)
  ELSE
    LET k == findChild(NodeAt(root, current).Children, At(parts, i), 1)
    IN IF k = 0 THEN <<>> ELSE getLoop(root, parts, i + 1, Append(current, k))

Get(root, n, path) ==
  IF n = <<>> THEN <<>> ELSE getLoop(root, Split(path, "/"), 0, n[1])

RECURSIVE setLoop(_, _, _, _, _)
setLoop(root, parts, i, current, value) ==
  IF i >= Len(parts) THEN [root |-> root, ret |-> <<current>>]
  ELSE IF At(parts, i) = <<>> THEN setLoop(root, parts, i + 1, current, value)
  ELSE
    LET cur == NodeAt(root, current)
        k == findChild(cur.Children, At(parts, i), 1)
        grown == IF k = 0
                 THEN ReplaceAt(root, current,
                        [cur EXCEPT !.Children = Append(@, Node(At(parts, i), <<>>, <<>>))])
                 ELSE root
        found == Append(current, IF k = 0 THEN Len(cur.Children) + 1 ELSE k)
    IN IF i = Len(parts) - 1
       THEN [root |-> ReplaceAt(grown, found, [NodeAt(grown, found) EXCEPT !.Value = value]),
             ret |-> <<found>>]
       ELSE setLoop(grown, parts, i + 1, found, value)

Set(root, n, path, value) ==
  IF n = <<>> THEN [root |-> root, ret |-> <<>>]
  ELSE setLoop(root, Split(path, "/"), 0, n[1], value)

\* the walk to the parent of the node to remove: for i := 0; i < len(parts)-1; i++
RECURSIVE removeWalk(_, _, _, _)
removeWalk(root, parts, i, current) ==
  IF i >= Len(parts) - 1 THEN <<current>>
  ELSE IF At(parts, i) = <<>> THEN removeWalk(root, parts, i + 1, current)
  ELSE
    LET k == findChild(NodeAt(root, current).Children, At(parts, i), 1)
    IN IF k = 0 THEN <<>> ELSE removeWalk(root, parts, i + 1, Append(current, k))

\* append(children[:i+1], children[i+1:]...): the child found is kept
removeChildKeep(children, k) ==
  SubSeq(children, 1, k) \o SubSeq(children, k + 1, Len(children))

\* children[i] = children[len-1]; children = children[:len-1]: the last child fills the gap
removeChildSwap(children, k) ==
  IF k = Len(children) THEN SubSeq(children, 1, k - 1)
  ELSE SubSeq(children, 1, k - 1) \o <<children[Len(children)]>>
       \o SubSeq(children, k + 1, Len(children) - 1)

\* append(children[:i], children[i+1:]...) for the child at position k
removeChild(children, k) ==
  SubSeq(children, 1, k - 1) \o SubSeq(children, k + 1, Len(children))

Remove(root, n, path) ==
  IF n = <<>> THEN [root |-> root, ret |-> FALSE]
  ELSE
    LET parts == Split(path, "/")
        parent == removeWalk(root, parts, 0, n[1])
    IN IF parent = <<>> THEN [root |-> root, ret |-> FALSE]
       ELSE
         LET cur == NodeAt(root, parent[1])
             k == findChild(cur.Children, At(parts, Len(parts) - 1), 1)
         IN IF k = 0 THEN [root |-> root, ret |-> FALSE]
            ELSE [root |-> ReplaceAt(root, parent[1],
                             [cur EXCEPT !.Children = removeChild(@, k)]),
                  ret |-> TRUE]

(***************************************************************************)
(* Typed accessors.  An int is an integer; a float64 is the decimal        *)
(* mant * 10^exp with mant not divisible by 10 (0 is mant 0, exp 0).       *)
(***************************************************************************)
DigitValue(c) == CHOOSE d \in 0..9 : ToString(d) = c

RECURSIVE digitsValue(_, _)
digitsValue(s, acc) ==
  IF s = <<>> THEN acc ELSE digitsValue(Tail(s), acc * 10 + DigitValue(Head(s)))

AllDigits(s) == \A i \in 1..Len(s) : s[i] \in Digits

\* strconv.Atoi on a text of fewer than 19 characters
Atoi(s) ==
  LET signed == s # <<>> /\ (s[1] = "-" \/ s[1] = "+")
      body == IF signed THEN Tail(s) ELSE s
  IN IF body = <<>> \/ ~AllDigits(body) THEN [err |-> TRUE, i |-> 0]
     ELSE [err |-> FALSE,
           i |-> IF signed /\ s[1] = "-" THEN 0 - digitsValue(body, 0) ELSE digitsValue(body, 0)]

RECURSIVE normFloat(_, _)
normFloat(mant, exp) ==
  IF mant = 0 THEN [mant |-> 0, exp |-> 0]
  ELSE IF mant % 10 = 0 THEN normFloat(mant \div 10, exp + 1)
  ELSE [mant |-> mant, exp |-> exp]

\* strconv.ParseFloat on a short decimal text: [sign] digits [. digits], at least one
\* digit; a text with any other character is a syntax error here (the model's values
\* spell no exponent, hexadecimal, infinity or NaN form)
ParseFloat(s) ==
  LET signed == s # <<>> /\ (s[1] = "-" \/ s[1] = "+")
      body == IF signed THEN Tail(s) ELSE s
      parts == Split(body, ".")
      whole == parts[1]
      frac == IF Len(parts) = 2 THEN parts[2] ELSE <<>>
  IN IF Len(parts) > 2 \/ ~AllDigits(whole) \/ ~AllDigits(frac) \/ whole \o frac = <<>>
     THEN [err |-> TRUE, f |-> normFloat(0, 0)]
     ELSE [err |-> FALSE,
           f |-> normFloat((IF signed /\ s[1] = "-" THEN 0 - 1 ELSE 1)
                             * digitsValue(whole \o frac, 0),
                           0 - Len(frac))]

NodeString(root, n, fallback) ==
  IF n = <<>> THEN fallback ELSE TrimSpace(NodeAt(root, n[1]).Value)

\* a value that is neither literal reads as false, whatever the fallback
NodeBoolFalse(root, n, fallback) ==
  IF n = <<>> THEN fallback
  ELSE TrimSpace(NodeAt(root, n[1]).Value) = <<"t", "r", "u", "e">>

NodeBool(root, n, fallback) ==
  IF n = <<>> THEN fallback
  ELSE LET v == TrimSpace(NodeAt(root, n[1]).Value)
       IN IF v = <<"t", "r", "u", "e">> THEN TRUE
          ELSE IF v = <<"f", "a", "l", "s", "e">> THEN FALSE
          ELSE fallback

\* a nil node reads as the zero value, whatever the fallback
NodeIntZero(root, n, fallback) ==
  IF n = <<>> THEN 0
  ELSE LET r == Atoi(TrimSpace(NodeAt(root, n[1]).Value))
       IN IF r.err THEN fallback ELSE r.i

NodeInt(root, n, fallback) ==
  IF n = <<>> THEN fallback
  ELSE LET r == Atoi(TrimSpace(NodeAt(root, n[1]).Value))
       IN IF r.err THEN fallback ELSE r.i

NodeFloat(root, n, fallback) ==
  IF n = <<>> THEN fallback
  ELSE LET r == ParseFloat(TrimSpace(NodeAt(root, n[1]).Value))
       IN IF r.err THEN fallback ELSE r.f

(***************************************************************************)
(* Typed setters                                                           *)
(***************************************************************************)
RECURSIVE natDigits(_)
natDigits(n) ==
  IF n < 10 THEN <<ToString(n)>> ELSE Append(natDigits(n \div 10), ToString(n % 10))

\* strconv.Itoa
Itoa(i) == IF i < 0 THEN <<"-">> \o natDigits(0 - i) ELSE natDigits(i)

\* strconv.FormatFloat(f, 'f', -1, 64) of the decimal mant * 10^exp: the shortest decimal
\* text of the number, without an exponent
FormatFloat(f) ==
  LET ds == natDigits(IF f.mant < 0 THEN 0 - f.mant ELSE f.mant)
      body == IF f.exp >= 0 THEN ds \o [i \in 1..f.exp |-> "0"]
              ELSE IF Len(ds) > 0 - f.exp
              THEN SubSeq(ds, 1, Len(ds) + f.exp) \o <<".">>
                   \o SubSeq(ds, Len(ds) + f.exp + 1, Len(ds))
              ELSE <<"0", ".">> \o [i \in 1..((0 - f.exp) - Len(ds)) |-> "0"] \o ds
  IN (IF f.mant < 0 THEN <<"-">> ELSE <<>>) \o body

SetBool(root, n, path, value) ==
  IF value THEN Set(root, n, path, <<"t", "r", "u", "e">>)
  ELSE Set(root, n, path, <<"f", "a", "l", "s", "e">>)

SetInt(root, n, path, value) == Set(root, n, path, Itoa(value))

SetFloat(root, n, path, value) == Set(root, n, path, FormatFloat(value))

(***************************************************************************)
(* Marshal and Unmarshal.  A Go value carries its type, as a reflect.Value *)
(* does: a record with its kind and, by kind, a string s, a bool b, a      *)
(* signed i or unsigned u of a width in bits, a float f, the fields of a   *)
(* struct (name exported or not, tag, value), or for a pointer the zero    *)
(* value elem of what it points to and p, nil or the value pointed to.     *)
(* A number that was parsed is its sign and its digits; stored in 8 or 16   *)
(* bits it is computed modulo 2^bits, stored in 64 bits it is itself (the   *)
(* model reads fewer than 10 digits into a field of 64 bits).              *)
(***************************************************************************)
GoString(s) == [kind |-> "string", s |-> s]

GoBool(b) == [kind |-> "bool", b |-> b]

GoInt(bits, i) == [kind |-> "int", bits |-> bits, i |-> i]

GoUint(bits, u) == [kind |-> "uint", bits |-> bits, u |-> u]

GoFloat(f) == [kind |-> "float", f |-> f]

Field(exported, tag, v) == [exported |-> exported, tag |-> tag, v |-> v]

GoStruct(fields) == [kind |-> "struct", fields |-> fields]

GoPtr(elem, p) == [kind |-> "ptr", elem |-> elem, p |-> p]

\* var v T: the zero value of the type of v
RECURSIVE Zero(_)
Zero(v) ==
  CASE v.kind = "string" -> GoString(<<>>)
    [] v.kind = "bool" -> GoBool(FALSE)
    [] v.kind = "int" -> GoInt(v.bits, 0)
    [] v.kind = "uint" -> GoUint(v.bits, 0)
    [] v.kind = "float" -> GoFloat(normFloat(0, 0))
    [] v.kind = "struct" ->
         GoStruct([k \in 1..Len(v.fields) |->
                     Field(v.fields[k].exported, v.fields[k].tag, Zero(v.fields[k].v))])
    [] v.kind = "ptr" -> GoPtr(v.elem, <<>>)
    [] OTHER -> v

ErrUnsupported == "unsupported type"

marshalled(node, err) == [node |-> node, err |-> err]

RECURSIVE marshalValue(_, _)
RECURSIVE marshalFields(_, _, _)
\* for i := 0; i < v.NumField(); i++ { ... } of marshalStruct, from field i on
marshalFields(fields, i, parent) ==
  IF i >= Len(fields) THEN marshalled(parent, NoError)
  ELSE
    LET f == At(fields, i)
    IN IF ~f.exported THEN marshalFields(fields, i + 1, parent)
       ELSE IF f.tag = <<>> THEN marshalFields(fields, i + 1, parent)
       ELSE
         LET r == marshalValue(f.v, f.tag)
         IN IF r.err # NoError THEN marshalled(parent, r.err)
            ELSE marshalFields(fields, i + 1,
                               IF r.node # <<>>
                               THEN [parent EXCEPT !.Children = Append(@, r.node[1])]
                               ELSE parent)

marshalStruct(v, parent) == marshalFields(v.fields, 0, parent)

marshalValue(v, name) ==
  IF v.kind = "ptr"
  THEN IF v.p = <<>> THEN marshalled(<<>>, NoError) ELSE marshalValue(v.p[1], name)
  ELSE
    CASE v.kind = "string" -> marshalled(<<Node(name, v.s, <<>>)>>, NoError)
      [] v.kind = "bool" ->
           marshalled(<<Node(name, IF v.b THEN <<"t", "r", "u", "e">>
                                   ELSE <<"f", "a", "l", "s", "e">>, <<>>)>>, NoError)
      [] v.kind = "int" -> marshalled(<<Node(name, Itoa(v.i), <<>>)>>, NoError)
      [] v.kind = "uint" -> marshalled(<<Node(name, natDigits(v.u), <<>>)>>, NoError)
      [] v.kind = "float" -> marshalled(<<Node(name, FormatFloat(v.f), <<>>)>>, NoError)
      [] v.kind = "struct" ->
           LET r == marshalStruct(v, Node(name, <<>>, <<>>))
           IN IF r.err # NoError THEN marshalled(<<>>, r.err)
              ELSE marshalled(<<r.node>>, NoError)
      [] OTHER -> marshalled(<<>>, ErrUnsupported)

Marshal(v) ==
  IF v.kind = "ptr" /\ v.p = <<>>
  THEN [out |-> <<>>, err |-> "bml: Marshal requires a non-nil value"]
  ELSE
    LET rv == IF v.kind = "ptr" THEN v.p[1] ELSE v
    IN IF rv.kind # "struct"
       THEN [out |-> <<>>, err |-> "bml: Marshal requires a struct or pointer to struct"]
       ELSE
         LET r == marshalStruct(rv, EmptyNode)
         IN IF r.err # NoError THEN [out |-> <<>>, err |-> r.err]
            ELSE [out |-> Serialize(<<[Root |-> r.node]>>), err |-> NoError]

\* the digits a and b are of one length: a is at most b as a number
RECURSIVE DigitsLeq(_, _)
DigitsLeq(a, b) ==
  IF a = <<>> THEN TRUE
  ELSE IF DigitValue(Head(a)) # DigitValue(Head(b))
  THEN DigitValue(Head(a)) < DigitValue(Head(b))
  ELSE DigitsLeq(Tail(a), Tail(b))

\* the number of the digits is at most the number of the digits of max
AtMost(digits, max) ==
  LET d == TrimLeftSet(digits, {"0"})
  IN Len(d) < Len(max) \/ (Len(d) = Len(max) /\ DigitsLeq(d, max))

MaxInt64 == <<"9", "2", "2", "3", "3", "7", "2", "0", "3", "6",
              "8", "5", "4", "7", "7", "5", "8", "0", "7">>

MinInt64 == <<"9", "2", "2", "3", "3", "7", "2", "0", "3", "6",
              "8", "5", "4", "7", "7", "5", "8", "0", "8">>

MaxUint64 == <<"1", "8", "4", "4", "6", "7", "4", "4", "0", "7",
               "3", "7", "0", "9", "5", "5", "1", "6", "1", "5">>

\* strconv.ParseInt(s, 10, 64): the sign and the digits of the number, an error for a
\* text that is not [sign] digits or whose number is not an int64
ParseInt(s) ==
  LET signed == s # <<>> /\ (s[1] = "-" \/ s[1] = "+")
      neg == signed /\ s[1] = "-"
      body == IF signed THEN Tail(s) ELSE s
  IN IF body = <<>> \/ ~AllDigits(body) THEN [err |-> TRUE, neg |-> FALSE, digits |-> <<>>]
     ELSE IF ~AtMost(body, IF neg THEN MinInt64 ELSE MaxInt64)
     THEN [err |-> TRUE, neg |-> FALSE, digits |-> <<>>]
     ELSE [err |-> FALSE, neg |-> neg, digits |-> body]

\* strconv.ParseUint(s, 10, 64): no sign is accepted
ParseUint(s) ==
  IF s = <<>> \/ ~AllDigits(s) THEN [err |-> TRUE, digits |-> <<>>]
  ELSE IF ~AtMost(s, MaxUint64) THEN [err |-> TRUE, digits |-> <<>>]
  ELSE [err |-> FALSE, digits |-> s]

\* the number of the digits modulo m
RECURSIVE digitsMod(_, _, _)
digitsMod(s, acc, m) ==
  IF s = <<>> THEN acc ELSE digitsMod(Tail(s), (acc * 10 + DigitValue(Head(s))) % m, m)

\* reflect.Value.SetInt(x) on an int of that width: *(*intN)(v.ptr) = intN(x)
reflectSetInt(bits, neg, digits) ==
  IF bits = 64 THEN (IF neg THEN 0 - digitsValue(digits, 0) ELSE digitsValue(digits, 0))
  ELSE LET m == 2 ^ bits
           r == digitsMod(digits, 0, m)
           u == IF neg THEN (m - r) % m ELSE r
       IN IF u >= m \div 2 THEN u - m ELSE u

\* reflect.Value.SetUint(x) on a uint of that width: *(*uintN)(v.ptr) = uintN(x)
reflectSetUint(bits, digits) ==
  IF bits = 64 THEN digitsValue(digits, 0) ELSE digitsMod(digits, 0, 2 ^ bits)

unmarshalled(v, err) == [v |-> v, err |-> err]

RECURSIVE unmarshalValue(_, _)
RECURSIVE unmarshalFields(_, _, _)
\* for i := 0; i < v.NumField(); i++ { ... } of unmarshalNode, from field i on; the
\* fields set before an error stay set
unmarshalFields(node, v, i) ==
  IF i >= Len(v.fields) THEN unmarshalled(v, NoError)
  ELSE
    LET f == At(v.fields, i)
    IN IF ~f.exported THEN unmarshalFields(node, v, i + 1)
       ELSE IF f.tag = <<>> THEN unmarshalFields(node, v, i + 1)
       ELSE
         LET got == Get(node, <<<<>>>>, f.tag)
             childNode == IF got = <<>> THEN <<>> ELSE <<NodeAt(node, got[1])>>
             r == unmarshalValue(childNode, f.v)
             set == [v EXCEPT !.fields[i + 1].v = r.v]
         IN IF r.err # NoError THEN unmarshalled(set, r.err)
            ELSE unmarshalFields(node, set, i + 1)

unmarshalNode(node, v) ==
  IF node = <<>> THEN unmarshalled(v, NoError) ELSE unmarshalFields(node[1], v, 0)

unmarshalValue(node, v) ==
  IF v.kind = "ptr" THEN
    IF node = <<>> THEN unmarshalled(v, NoError)
    ELSE LET r == unmarshalValue(node, IF v.p = <<>> THEN v.elem ELSE v.p[1])
         IN unmarshalled([v EXCEPT !.p = <<r.v>>], r.err)
  ELSE IF node = <<>> THEN unmarshalled(v, NoError)
  ELSE
    LET val == TrimSpace(node[1].Value)
    IN CASE v.kind = "string" -> unmarshalled([v EXCEPT !.s = val], NoError)
         [] v.kind = "bool" ->
              unmarshalled([v EXCEPT !.b = (val = <<"t", "r", "u", "e">>)], NoError)
         [] v.kind = "int" ->
              IF val = <<>> THEN unmarshalled(v, NoError)
              ELSE LET r == ParseInt(val)
                   IN IF r.err THEN unmarshalled(v, "cannot parse as int")
                      ELSE unmarshalled([v EXCEPT !.i = reflectSetInt(v.bits, r.neg, r.digits)],
                                        NoError)
         [] v.kind = "uint" ->
              IF val = <<>> THEN unmarshalled(v, NoError)
              ELSE LET r == ParseUint(val)
                   IN IF r.err THEN unmarshalled(v, "cannot parse as uint")
                      ELSE unmarshalled([v EXCEPT !.u = reflectSetUint(v.bits, r.digits)],
                                        NoError)
         [] v.kind = "float" ->
              IF val = <<>> THEN unmarshalled(v, NoError)
              ELSE LET r == ParseFloat(val)
                   IN IF r.err THEN unmarshalled(v, "cannot parse as float")
                      ELSE unmarshalled([v EXCEPT !.f = r.f], NoError)
         [] v.kind = "struct" -> unmarshalNode(node, v)
         [] OTHER -> unmarshalled(v, ErrUnsupported)

\* Unmarshal(data, v): what v is after the call, and the error
Unmarshal(data, v) ==
  LET parsed == Parse(data)
  IN IF parsed.err # NoError THEN unmarshalled(v, parsed.err)
     ELSE IF v.kind # "ptr" THEN unmarshalled(v, "bml: Unmarshal requires a pointer")
     ELSE IF v.p = <<>> THEN unmarshalled(v, "bml: Unmarshal requires a non-nil pointer")
     ELSE IF v.p[1].kind # "struct"
     THEN unmarshalled(v, "bml: Unmarshal requires a pointer to a struct")
     ELSE LET r == unmarshalNode(<<parsed.doc[1].Root>>, v.p[1])
          IN unmarshalled([v EXCEPT !.p = <<r.v>>], r.err)

(***************************************************************************)
(* Inputs                                                                  *)
(***************************************************************************)
MaxLines == 3

MaxParentDepth == 1

MaxDirectLines == 2

MaxSegments == 2

MaxMutations == 1

MaxValueLen == 5

MaxAttrs == 2

MaxNestLines == 4

Indents == {<<>>, <<" ">>, <<"\t", " ">>}

Bodies ==
  { <<"a">>,
    <<"b", ":", " ", "x", " ", "/", "/", "c">>,
    <<":", " ", "y", " ", "/", "/", "c">>,
    <<"a", " ", "b", "=", "1">> }

Lines == {i \o b : i \in Indents, b \in Bodies}

RECURSIVE TextsOf(_)
TextsOf(n) ==
  IF n = 0 THEN {<<>>}
  ELSE {l \o <<"\n">> \o t : l \in Lines, t \in TextsOf(n - 1)}

Texts == UNION {TextsOf(n) : n \in 0..MaxLines}

\* the texts of at most MaxLines lines, each an indentation followed by one of the bodies
RECURSIVE TextsFrom(_, _)
TextsFrom(bodies, n) ==
  IF n = 0 THEN {<<>>}
  ELSE {i \o b \o <<"\n">> \o t : i \in Indents, b \in bodies, t \in TextsFrom(bodies, n - 1)}

TextsWith(bodies) == UNION {TextsFrom(bodies, n) : n \in 0..MaxLines}

\* lines that fail: an unclosed quote in a node value and in an inline attribute, no name
ErrBodies ==
  { <<"a">>,
    <<"b", "=", "\"", "x">>,
    <<"a", " ", "b", "=", "\"", "x", "\"", " ", "c", "=", "\"", "y">>,
    <<":", " ", "y">> }

\* node lines without and with an inline value, an empty continuation and one with a text
ContBodies ==
  { <<"a">>,
    <<"b", ":", " ", "x">>,
    <<":">>,
    <<":", " ", "y">> }

\* raw lines for the normalizer: an indented node, an empty line, a line of one form
\* feed, and '//' after nothing, after a tab and after a form feed
RawLines ==
  { <<" ", "a">>, <<>>, <<"\f">>,
    <<"/", "/", "a">>, <<"\t", "/", "/">>, <<"\f", "/", "/">> }

\* the lines handed to the value micro-parser: at most n of the characters it tells apart
RECURSIVE ValueLinesUpTo(_)
ValueLinesUpTo(n) ==
  IF n = 0 THEN {<<>>}
  ELSE LET shorter == ValueLinesUpTo(n - 1)
       IN shorter \cup {Append(l, c) : l \in shorter, c \in {"x", ":", "=", " ", "/", "\""}}

\* one-line documents for the attribute loop: a node without or with a value, then at
\* most n times a space and one of: nothing, a name, attributes with a bare, a quoted, an
\* unclosed and a colon value, a comment, an '=' and a tab before an attribute
RECURSIVE AttrLinesUpTo(_)
AttrLinesUpTo(n) ==
  IF n = 0 THEN {<<"n">>, <<"n", "=", "1">>}
  ELSE LET shorter == AttrLinesUpTo(n - 1)
       IN shorter \cup
          {l \o <<" ">> \o t : l \in shorter, t \in
             { <<>>, <<"a">>, <<"b", "=", "1">>, <<"c", "=", "\"", "x", " ", "y", "\"">>,
               <<"d", "=", "\"", "z">>, <<"e", ":", " ", "v">>, <<"/", "/", "c">>,
               <<"=", "x">>, <<"\t", "f", "=", "1">> }}

LineBreaks == {<<"\n">>, <<"\r", "\n">>, <<"\r">>}

RECURSIVE RawTextsOf(_)
RawTextsOf(n) ==
  IF n = 1 THEN RawLines
  ELSE {l \o b \o t : l \in RawLines, b \in LineBreaks, t \in RawTextsOf(n - 1)}

RawTextsUpTo(n) == UNION {RawTextsOf(k) : k \in 1..n}

\* the documents the tree operations start from
SeedTexts ==
  { <<>>,
    <<"a", "\n", " ", "b", ":", " ", "1", ".", "5", "\n", " ", "b", "\n", " ", "a", "\n",
      "a", ":", " ", "t", "r", "u", "e">>,
    <<"b", "\n", " ", ":", " ", " ", "\n", "b", "\n", " ", "a", ":", " ", "1">> }

Segments == {<<>>, <<"a">>, <<"b">>}

RECURSIVE PathsOf(_)
PathsOf(n) ==
  IF n = 1 THEN Segments
  ELSE {s \o <<"/">> \o p : s \in Segments, p \in PathsOf(n - 1)}

Paths == UNION {PathsOf(n) : n \in 1..MaxSegments}

Values == {<<>>, <<"1">>}

\* the arguments of the calls that edit a document before it is written: segments that
\* are names and one that is not, a plain text and one with a comment marker in it
EditSegments == {<<"a">>, <<"b">>, <<":">>}

RECURSIVE EditPathsOf(_)
EditPathsOf(n) ==
  IF n = 1 THEN EditSegments
  ELSE {s \o <<"/">> \o p : s \in EditSegments, p \in EditPathsOf(n - 1)}

EditPaths == UNION {EditPathsOf(n) : n \in 1..MaxSegments}

EditValues == {<<"1">>, <<"x", "/", "/", "y">>}

EditBools == {TRUE, FALSE}

EditInts == {0 - 3, 20}

EditFloats == {normFloat(5, 0 - 2), normFloat(0 - 15, 0 - 1), normFloat(3, 2)}

\* the structs handed to Marshal: a string, a bool, an int8, a nested struct with a
\* uint16, a pointer to a string, an int64 and a uint64, and three fields that are skipped
\* or refused (not exported, no tag, a slice when there is one)
Outer(s, b, i, u, p, more) ==
  GoStruct(<<Field(TRUE, <<"a">>, GoString(s)),
             Field(TRUE, <<"b">>, GoBool(b)),
             Field(FALSE, <<"p">>, GoString(<<"s">>)),
             Field(TRUE, <<>>, GoString(<<"i">>)),
             Field(TRUE, <<"c">>, GoInt(8, i)),
             Field(TRUE, <<"d">>,
                   GoStruct(<<Field(TRUE, <<"a">>, GoUint(16, u)),
                              Field(TRUE, <<"b">>, GoPtr(GoString(<<>>), p)),
                              Field(TRUE, <<"c">>, GoInt(64, 0 - 70000)),
                              Field(TRUE, <<"d">>, GoUint(64, 70000))>>))>> \o more)

MarshalStructs ==
  {Outer(s, b, i, u, p, <<>>) :
     s \in {<<>>, <<"x">>, <<" ", "x">>, <<"x", "/", "/", "y">>},
     b \in BOOLEAN, i \in {0 - 128, 5}, u \in {0, 65535},
     p \in {<<>>, <<GoString(<<"x">>)>>}}
  \cup {Outer(<<"x">>, TRUE, 5, 0, <<>>, <<Field(TRUE, <<"e">>, [kind |-> "slice"])>>)}

\* Marshal(v) and Marshal(&v), Marshal of a nil pointer and of a value that is no struct
MarshalValues ==
  MarshalStructs \cup {GoPtr(Zero(v), <<v>>) : v \in MarshalStructs}
  \cup {GoPtr(GoString(<<>>), <<>>), GoString(<<"x">>)}

\* the texts read into an integer field: "n: " and a number text
UnmarshalTexts ==
  {<<"n", ":", " ">> \o t : t \in
  { <<"0">>, <<"7">>, <<"-", "7">>, <<"+", "7">>, <<" ", "7">>, <<"1", "2", "7">>,
    <<"1", "2", "8">>, <<"-", "1", "2", "8">>, <<"-", "1", "2", "9">>, <<"2", "5", "5">>,
    <<"2", "5", "6">>, <<"3", "0", "0">>, <<"3", "2", "7", "6", "8">>,
    <<"6", "5", "5", "3", "6">>, <<"-", "1">>, <<"a", "b", "c">>, <<>>, <<"1", ".", "5">>,
    MaxInt64, MinInt64, <<"-">> \o MinInt64, <<"-">> \o MinInt64 \o <<"0">>,
    MaxUint64, MaxUint64 \o <<"0">> }}

IntoField(v) == GoPtr(Zero(GoStruct(<<Field(TRUE, <<"n">>, v)>>)),
                      <<GoStruct(<<Field(TRUE, <<"n">>, v)>>)>>)

\* the values Unmarshal is called with: pointers to a struct with one integer field, signed
\* and unsigned, of 8 and of 16 bits, then a struct itself, a nil pointer and a pointer to
\* a string
UnmarshalTargets ==
  {IntoField(GoInt(bits, 0)) : bits \in {8, 16}}
  \cup {IntoField(GoUint(bits, 0)) : bits \in {8, 16}}
  \cup {GoStruct(<<>>), GoPtr(GoStruct(<<>>), <<>>), GoPtr(GoString(<<>>), <<GoString(<<>>)>>)}

StringFallbacks == {<<"d">>}

BoolFallbacks == {TRUE, FALSE}

IntFallbacks == {99}

FloatFallbacks == {normFloat(15, 0 - 1)}

(***************************************************************************)
(* State                                                                   *)
(***************************************************************************)
VARIABLES
  data,      \* the text handed to Parse
  pc,        \* "start", "normalized", "parsed", "node", "serialized", "reparsed",
             \* "marshalled", "unmarshalled", "value"
  lines,     \* the normalized lines of data, once Parse has run
  result,    \* what Parse(data) returned
  tree,      \* the root node of the document
  direct,    \* a direct call of parseNode on the normalized lines: arguments and result
  output,    \* what Serialize returned
  again,     \* what Parse(output) returned
  before,    \* the root node before the last tree operation
  mutations, \* the number of Set and Remove calls so far
  op,        \* the last tree operation
  recv,      \* its receiver: nil or a pointer into the tree
  path,      \* its path argument
  val,       \* its value or fallback argument
  ret        \* what it returned

vars ==
  <<data, pc, lines, result, tree, direct, output, again,
    before, mutations, op, recv, path, val, ret>>

parseVars == <<data, pc, lines, result, direct, output, again>>

callVars == <<before, mutations, op, recv, path, val, ret>>

NoResult == [doc |-> <<>>, err |-> NoError, log |-> <<>>]

NoDirect == [index |-> 0, parentDepth |-> -1, r |-> parseFail(0, NoError)]

InitFrom(texts) ==
  /\ data \in texts
  /\ pc = "start"
  /\ lines = <<>>
  /\ result = NoResult
  /\ tree = EmptyNode
  /\ direct = NoDirect
  /\ output = <<>>
  /\ again = NoResult
  /\ before = EmptyNode
  /\ mutations = 0
  /\ op = "none"
  /\ recv = <<>>
  /\ path = <<>>
  /\ val = <<>>
  /\ ret = <<>>

Init == InitFrom(Texts)

TreeInit == InitFrom(SeedTexts)

ErrInit == InitFrom(TextsWith(ErrBodies))

ContInit == InitFrom(TextsWith(ContBodies))

NormInit == InitFrom(RawTextsUpTo(MaxLines))

(***************************************************************************)
(* Parsing and serializing                                                 *)
(***************************************************************************)
CallParse ==
  /\ pc = "start"
  /\ lines' = normalizeLines(data)
  /\ result' = Parse(data)
  /\ tree' = IF result'.doc = <<>> THEN tree ELSE result'.doc[1].Root
  /\ pc' = "parsed"
  /\ UNCHANGED <<data, direct, output, again>>
  /\ UNCHANGED callVars

CallParseNode(index, parentDepth) ==
  /\ pc = "parsed"
  /\ Len(lines) <= MaxDirectLines
  /\ index <= Len(lines)
  /\ direct' = [index |-> index, parentDepth |-> parentDepth,
                r |-> parseNode(lines, index, parentDepth)]
  /\ pc' = "node"
  /\ UNCHANGED <<data, lines, result, tree, output, again>>
  /\ UNCHANGED callVars

CallSerialize ==
  /\ pc = "parsed"
  /\ result.err = NoError
  /\ output' = Serialize(<<[Root |-> tree]>>)
  /\ pc' = "serialized"
  /\ UNCHANGED <<data, lines, result, tree, direct, again>>
  /\ UNCHANGED callVars

CallReparse ==
  /\ pc = "serialized"
  /\ again' = Parse(output)
  /\ pc' = "reparsed"
  /\ UNCHANGED <<data, lines, result, tree, direct, output>>
  /\ UNCHANGED callVars

Next ==
  \/ CallParse
  \/ \E index \in 0..MaxDirectLines, parentDepth \in -1..MaxParentDepth :
       CallParseNode(index, parentDepth)
  \/ CallSerialize
  \/ CallReparse

Spec == Init /\ [][Next]_vars

ErrSpec == ErrInit /\ [][Next]_vars

ContSpec == ContInit /\ [][Next]_vars

AttrSpec == InitFrom(AttrLinesUpTo(MaxAttrs)) /\ [][Next]_vars

\* a node line and a continuation line, for texts of nodes nested over more lines
NestBodies == {<<"a">>, <<":", " ", "y">>}

NestSpec ==
  /\ InitFrom(UNION {TextsFrom(NestBodies, n) : n \in 0..MaxNestLines})
  /\ [][Next]_vars

\* the step in which a call of Parse returns; CallParse is the only action that takes it
ParseReturns == pc = "start" /\ pc' = "parsed"

\* the caller of Parse runs on until the call returns
FairSpec == ErrSpec /\ WF_pc(ParseReturns)

(***************************************************************************)
(* The line normalizer on its own                                          *)
(***************************************************************************)
CallNormalizeLines ==
  /\ pc = "start"
  /\ lines' = normalizeLines(data)
  /\ pc' = "normalized"
  /\ UNCHANGED <<data, result, tree, direct, output, again>>
  /\ UNCHANGED callVars

NormNext == CallNormalizeLines

NormSpec == NormInit /\ [][NormNext]_vars

(***************************************************************************)
(* The value micro-parser on its own: data is the line, val the position   *)
(***************************************************************************)
CallParseValue(pos) ==
  /\ pc = "start"
  /\ pos <= Len(data)
  /\ op' = "parseValue"
  /\ val' = pos
  /\ ret' = parseValue(data, pos)
  /\ pc' = "value"
  /\ UNCHANGED <<data, lines, result, tree, direct, output, again, before, mutations,
                 recv, path>>

ValueNext == \E pos \in 0..(MaxValueLen + 1) : CallParseValue(pos)

ValueSpec == InitFrom(ValueLinesUpTo(MaxValueLen)) /\ [][ValueNext]_vars

(***************************************************************************)
(* Tree operations on a parsed document                                    *)
(***************************************************************************)
\* the receivers the calls are made on: a nil node and the root of the document
Receivers == {<<>>, <<<<>>>>}

Ready == pc = "parsed" /\ result.err = NoError

Idle == Ready /\ op = "none"

Called(name, n, p, v, r) ==
  /\ op' = name
  /\ recv' = n
  /\ path' = p
  /\ val' = v
  /\ ret' = r
  /\ before' = tree
  /\ UNCHANGED parseVars

CallGet(n, p) ==
  /\ Idle
  /\ Called("Get", n, p, <<>>, Get(tree, n, p))
  /\ UNCHANGED <<tree, mutations>>

\* the accessors are chained on the result of a Get: Get(p).String(fallback)
CallString(fallback) ==
  /\ Ready /\ op = "Get"
  /\ Called("String", ret, <<>>, fallback, NodeString(tree, ret, fallback))
  /\ UNCHANGED <<tree, mutations>>

CallBool(fallback) ==
  /\ Ready /\ op = "Get"
  /\ Called("Bool", ret, <<>>, fallback, NodeBool(tree, ret, fallback))
  /\ UNCHANGED <<tree, mutations>>

CallInt(fallback) ==
  /\ Ready /\ op = "Get"
  /\ Called("Int", ret, <<>>, fallback, NodeInt(tree, ret, fallback))
  /\ UNCHANGED <<tree, mutations>>

CallFloat(fallback) ==
  /\ Ready /\ op = "Get"
  /\ Called("Float", ret, <<>>, fallback, NodeFloat(tree, ret, fallback))
  /\ UNCHANGED <<tree, mutations>>

CallSet(n, p, v) ==
  /\ Idle /\ mutations < MaxMutations
  /\ LET r == Set(tree, n, p, v)
     IN /\ tree' = r.root
        /\ Called("Set", n, p, v, r.ret)
  /\ mutations' = mutations + 1

CallRemove(n, p) ==
  /\ Idle /\ mutations < MaxMutations
  /\ LET r == Remove(tree, n, p)
     IN /\ tree' = r.root
        /\ Called("Remove", n, p, <<>>, r.ret)
  /\ mutations' = mutations + 1

\* the caller drops the result of the call and is free to make the next one
Return ==
  /\ Ready /\ op # "none"
  /\ op' = "none"
  /\ recv' = <<>>
  /\ path' = <<>>
  /\ val' = <<>>
  /\ ret' = <<>>
  /\ before' = tree
  /\ UNCHANGED <<tree, mutations>>
  /\ UNCHANGED parseVars

TreeNext ==
  \/ CallParse
  \/ Return
  \/ \E n \in Receivers, p \in Paths : CallGet(n, p)
  \/ \E fallback \in StringFallbacks : CallString(fallback)
  \/ \E fallback \in BoolFallbacks : CallBool(fallback)
  \/ \E fallback \in IntFallbacks : CallInt(fallback)
  \/ \E fallback \in FloatFallbacks : CallFloat(fallback)
  \/ \E n \in Receivers, p \in Paths, v \in Values : CallSet(n, p, v)
  \/ \E n \in Receivers, p \in Paths : CallRemove(n, p)

TreeSpec == TreeInit /\ [][TreeNext]_vars

(***************************************************************************)
(* Editing a parsed document, then writing it and reading it back          *)
(***************************************************************************)
Edited(name, n, p, v, r) ==
  /\ Idle /\ mutations < MaxMutations
  /\ tree' = r.root
  /\ Called(name, n, p, v, r.ret)
  /\ mutations' = mutations + 1

CallSetBool(n, p, v) == Edited("SetBool", n, p, v, SetBool(tree, n, p, v))

CallSetInt(n, p, v) == Edited("SetInt", n, p, v, SetInt(tree, n, p, v))

CallSetFloat(n, p, v) == Edited("SetFloat", n, p, v, SetFloat(tree, n, p, v))

EditNext ==
  \/ CallParse
  \/ Return
  \/ \E p \in EditPaths, v \in EditValues : CallSet(<<<<>>>>, p, v)
  \/ \E p \in EditPaths, v \in EditBools : CallSetBool(<<<<>>>>, p, v)
  \/ \E p \in EditPaths, v \in EditInts : CallSetInt(<<<<>>>>, p, v)
  \/ \E p \in EditPaths, v \in EditFloats : CallSetFloat(<<<<>>>>, p, v)
  \/ \E p \in EditPaths : CallRemove(<<<<>>>>, p)
  \/ CallSerialize
  \/ CallReparse

EditSpec == TreeInit /\ [][EditNext]_vars

(***************************************************************************)
(* Marshal, then Unmarshal of what it wrote into a zero value              *)
(***************************************************************************)
CallMarshal(v) ==
  /\ pc = "start"
  /\ op' = "Marshal"
  /\ val' = v
  /\ ret' = Marshal(v)
  /\ output' = ret'.out
  /\ pc' = "marshalled"
  /\ UNCHANGED <<data, lines, result, tree, direct, again, before, mutations, recv, path>>

\* var result T; Unmarshal(data, &result) with T the type of the struct that was written
CallUnmarshalOutput ==
  /\ pc = "marshalled"
  /\ ret.err = NoError
  /\ LET v == IF val.kind = "ptr" THEN val.p[1] ELSE val
     IN ret' = Unmarshal(output, GoPtr(Zero(v), <<Zero(v)>>))
  /\ again' = Parse(output)
  /\ op' = "Unmarshal"
  /\ pc' = "unmarshalled"
  /\ UNCHANGED <<data, lines, result, tree, direct, output, before, mutations, recv, path,
                 val>>

MarshalNext ==
  \/ \E v \in MarshalValues : CallMarshal(v)
  \/ CallUnmarshalOutput

MarshalSpec == InitFrom({<<>>}) /\ [][MarshalNext]_vars

(***************************************************************************)
(* Unmarshal of a text                                                     *)
(***************************************************************************)
CallUnmarshal(v) ==
  /\ pc = "start"
  /\ lines' = normalizeLines(data)
  /\ result' = Parse(data)
  /\ tree' = IF result'.doc = <<>> THEN tree ELSE result'.doc[1].Root
  /\ op' = "Unmarshal"
  /\ val' = v
  /\ ret' = Unmarshal(data, v)
  /\ pc' = "unmarshalled"
  /\ UNCHANGED <<data, direct, output, again, before, mutations, recv, path>>

UnmarshalNext == \E v \in UnmarshalTargets : CallUnmarshal(v)

UnmarshalSpec == InitFrom(UnmarshalTexts) /\ [][UnmarshalNext]_vars

(***************************************************************************)
(* Properties                                                              *)
(***************************************************************************)
RECURSIVE NonEmpty(_)
NonEmpty(parts) ==
  IF parts = <<>> THEN <<>>
  ELSE (IF Head(parts) = <<>> THEN <<>> ELSE <<Head(parts)>>) \o NonEmpty(Tail(parts))

RECURSIVE Join(_)
Join(parts) ==
  IF parts = <<>> THEN <<>>
  ELSE IF Len(parts) = 1 THEN parts[1]
  ELSE parts[1] \o <<"/">> \o Join(Tail(parts))

\* the segments of a path, and the path with its empty segments removed
SegmentsOf(p) == NonEmpty(Split(p, "/"))

Clean(p) == Join(SegmentsOf(p))

\* the positions of the children of that name, in child order
Named(children, name) == {k \in 1..Len(children) : children[k].Name = name}

Least(S) == CHOOSE k \in S : \A m \in S : k <= m

\* the node reached from ptr by taking, segment by segment, the first child of that name
RECURSIVE Walk(_, _, _)
Walk(root, ptr, segs) ==
  IF segs = <<>> THEN <<ptr>>
  ELSE LET found == Named(NodeAt(root, ptr).Children, Head(segs))
       IN IF found = {} THEN <<>>
          ELSE Walk(root, Append(ptr, Least(found)), Tail(segs))

Blank(value) == \A i \in 1..Len(value) : value[i] \in WhiteSpace

Accessors == {"String", "Bool", "Int", "Float"}

\* a line that is a continuation, or a node line with no '=' value and no inline attribute
PlainLine(line) ==
  LET depth == readDepth(line)
      pos == scanName(line, depth)
  IN \/ (depth < Len(line) /\ At(line, depth) = ":")
     \/ /\ pos < Len(line) => At(line, pos) # "="
        /\ attrLoop(line, valueAt(line, pos).pos, <<>>).children = <<>>

Plain == \A k \in 1..Len(lines) : PlainLine(lines[k])

\* C1: for a text without inline attributes and '=' values that Parse accepts, parsing
\* the serialized document succeeds and gives the same tree (names, values, child order)
RoundTrip ==
  (pc = "reparsed" /\ Plain) => (again.err = NoError /\ again.doc = result.doc)

\* C2: after Set(p, v) on a node, with p not empty (it names at least one segment),
\* Get(p) on that node is a present node whose value is v
SetThenGet ==
  (op = "Set" /\ recv # <<>> /\ SegmentsOf(path) # <<>>) =>
    LET got == Get(tree, recv, path)
    IN got # <<>> /\ NodeAt(tree, got[1]).Value = val

\* C3: a second Set(p, v) with the same arguments leaves the tree as the first call
\* left it and returns the same node
SetIdempotent ==
  op = "Set" =>
    LET second == Set(tree, recv, path, val)
    IN second.root = tree /\ second.ret = ret

SetCreatedNodes ==
  op = "Set" /\ recv # <<>> /\ ret # <<>> /\ Len(ret[1]) = 2 /\ val # <<>>
  /\ Len(NodeAt(tree, <<>>).Children) > Len(NodeAt(before, <<>>).Children)

\* the number of children named by the final segment of p under the parent that p reaches
\* in the tree the receiver n belongs to (0 when the parent is not reached)
Candidates(root, n, p) ==
  LET parts == Split(p, "/")
      parent == Walk(root, n[1], NonEmpty(SubSeq(parts, 1, Len(parts) - 1)))
  IN IF parent = <<>> THEN 0
     ELSE Cardinality(Named(NodeAt(root, parent[1]).Children, parts[Len(parts)]))

\* C4 as stated: when Remove(p) returns true, a following Get(p) is absent and a
\* following second Remove(p) returns false
RemoveThenAbsent ==
  (op = "Remove" /\ ret = TRUE) =>
    (Get(tree, recv, path) = <<>> /\ Remove(tree, recv, path).ret = FALSE)

\* C4: when Remove(p) returns true and the parent it reached held exactly one child named
\* by the final segment of p, a following Get(p) is absent and a following second
\* Remove(p) returns false
RemoveOnlyThenAbsent ==
  (op = "Remove" /\ ret = TRUE /\ Candidates(before, recv, path) = 1) =>
    (Get(tree, recv, path) = <<>> /\ Remove(tree, recv, path).ret = FALSE)

RemovedOnlyChild ==
  op = "Remove" /\ ret = TRUE /\ Candidates(before, recv, path) = 1
  /\ Len(SegmentsOf(path)) = 2

\* C5: in a parsed tree every node that has its own line is indented strictly deeper
\* than the line of its parent, and parseNode answers a line that is not strictly deeper
\* than the parent depth it is given with the invalid-indentation error and no node
DepthMonotonicity ==
  /\ (pc # "start" /\ result.err = NoError) =>
       \A k \in 1..Len(result.log) :
         LET e == result.log[k]
         IN (e.kind = "child" /\ e.parent # RootLine) =>
              readDepth(At(lines, e.line)) > readDepth(At(lines, e.parent))
  /\ (pc = "node" /\ direct.index < Len(lines) /\ direct.parentDepth >= 0
        /\ readDepth(At(lines, direct.index)) <= direct.parentDepth) =>
       (direct.r.err = ErrIndentation /\ direct.r.node = <<>>)

NestedAndMisindented ==
  /\ pc = "node" /\ result.err = NoError
  /\ \E k \in 1..Len(result.log) : result.log[k].kind = "child" /\ result.log[k].parent # RootLine
  /\ direct.index < Len(lines) /\ direct.parentDepth >= 0
  /\ readDepth(At(lines, direct.index)) = direct.parentDepth

\* C6: Get returns the node reached by taking, for each non-empty segment in order, the
\* first child of that name, and nil as soon as a segment has no such child or when the
\* receiver is nil
GetFirstMatch ==
  op = "Get" =>
    ret = (IF recv = <<>> THEN <<>> ELSE Walk(tree, recv[1], SegmentsOf(path)))

\* a Get that is nil although a later sibling of the same name has the child asked for
GetIgnoredLaterSibling ==
  /\ op = "Get" /\ recv # <<>> /\ ret = <<>> /\ Len(SegmentsOf(path)) = 2
  /\ \E k \in Named(tree.Children, SegmentsOf(path)[1]) :
       Named(tree.Children[k].Children, SegmentsOf(path)[2]) # {}

\* C7: Get(p) returns the node that Get returns for p without its empty segments, and
\* the receiver itself when p has no other segment
GetSkipsEmptySegments ==
  op = "Get" =>
    /\ ret = Get(tree, recv, Clean(path))
    /\ SegmentsOf(path) = <<>> => ret = recv

GetThroughEmptySegment ==
  op = "Get" /\ Clean(path) # path /\ ret # <<>> /\ ret # recv

\* C8: Remove(p) returns what Remove returns for p without its empty segments, and
\* leaves the tree that call leaves
RemoveSkipsEmptySegments ==
  op = "Remove" =>
    LET clean == Remove(before, recv, Clean(path))
    IN ret = clean.ret /\ tree = clean.root

\* C9: String, Bool, Int and Float on a nil node return the fallback they are given
NilGivesFallback ==
  (op \in Accessors /\ recv = <<>>) => ret = val

AccessorOnNil == op = "Int" /\ recv = <<>> /\ ret = 99

\* C10 as stated: on a node whose value is empty or only white space, String, Bool, Int
\* and Float return the fallback they are given
BlankGivesFallback ==
  (op \in Accessors /\ recv # <<>> /\ Blank(NodeAt(tree, recv[1]).Value)) => ret = val

\* C10: on a node whose value is empty or only white space, Bool, Int and Float return
\* the fallback they are given and String returns the empty string
BlankGivesFallbackOrEmpty ==
  (op \in Accessors /\ recv # <<>> /\ Blank(NodeAt(tree, recv[1]).Value)) =>
    ret = (IF op = "String" THEN <<>> ELSE val)

AccessorOnBlank ==
  op = "Bool" /\ val = TRUE /\ recv # <<>> /\ NodeAt(tree, recv[1]).Value = <<" ">>

\* a line that starts with ':' after its indentation
Colon(line) == HasPrefix(TrimLeftSet(line, {" ", "\t"}), <<":">>)

\* line k (from 0) has to start a node: it is not a ':' line below a shallower earlier line
StartsNode(ls, k) ==
  ~(Colon(At(ls, k)) /\ \E j \in 0..(k - 1) : readDepth(At(ls, j)) < readDepth(At(ls, k)))

\* the error of a line parsed on its own: its name, its value and its inline attributes
LineErr(line) == parseNode(<<line>>, 0, -1).err

FailingLines(ls) == {k \in 0..(Len(ls) - 1) : StartsNode(ls, k) /\ LineErr(At(ls, k)) # NoError}

\* C11: Parse returns either a document and no error or an error and no document, and
\* an error and no document whenever a line that has to start a node, at any depth, fails
\* in its name, its value or an inline attribute
AllOrNothing ==
  pc # "start" =>
    /\ (result.doc = <<>>) <=> (result.err # NoError)
    /\ Len(result.doc) <= 1
    /\ FailingLines(lines) # {} => (result.doc = <<>> /\ result.err # NoError)

\* a parse that fails in an inline attribute of a nested line after it has built nodes
FailedAfterNodes ==
  /\ pc = "parsed" /\ result.err = ErrUnclosedQuote /\ result.doc = <<>>
  /\ result.log # <<>>
  /\ \E k \in FailingLines(lines) :
       LET line == At(lines, k)
       IN /\ \E j \in 0..(k - 1) : readDepth(At(lines, j)) < readDepth(line)
          /\ valueAt(line, scanName(line, readDepth(line))).err = NoError

NameChars(s) == \A i \in 1..Len(s) : isValidNameChar(s[i])

\* the text of a value that closes: nothing, '=' and a bare word, or '=' and a quoted word
ValueText(t) ==
  \/ t = <<>>
  \/ /\ t[1] = "="
     /\ \/ NameChars(Tail(t))
        \/ /\ Len(t) >= 3 /\ t[2] = "\"" /\ t[Len(t)] = "\""
           /\ NameChars(SubSeq(t, 3, Len(t) - 1))

\* nothing (between two spaces), or an inline attribute: a name and the text of its value
AttrText(t) ==
  \/ t = <<>>
  \/ \E i \in 1..Len(t) : NameChars(SubSeq(t, 1, i)) /\ ValueText(SubSeq(t, i + 1, Len(t)))

\* at p the line has '=' and '"', and no '"' after them
OpenQuoteAt(line, p) ==
  /\ p + 1 < Len(line) /\ At(line, p) = "=" /\ At(line, p + 1) = "\""
  /\ \A q \in (p + 2)..(Len(line) - 1) : At(line, q) # "\""

\* the value of the node of the line opens a quote that is not closed
NodeOpensQuote(line) ==
  LET depth == readDepth(line)
      n == scanName(line, depth)
  IN n > depth /\ OpenQuoteAt(line, n)

\* the value of an inline attribute of the line does: the attribute follows, after a
\* space, the name of the node, its value and inline attributes that are well formed
AttrOpensQuote(line) ==
  LET depth == readDepth(line)
      n == scanName(line, depth)
  IN /\ n > depth
     /\ \E a \in (n + 1)..(Len(line) - 1), p \in (n + 2)..(Len(line) - 1) :
          /\ a < p /\ NameChars(Slice(line, a, p)) /\ OpenQuoteAt(line, p)
          /\ At(line, a - 1) = " "
          /\ LET between == Split(Slice(line, n, a - 1), " ")
             IN /\ ValueText(between[1])
                /\ \A i \in 2..Len(between) : AttrText(between[i])

UnclosedLines(ls) ==
  {k \in 0..(Len(ls) - 1) :
     StartsNode(ls, k) /\ (NodeOpensQuote(At(ls, k)) \/ AttrOpensQuote(At(ls, k)))}

\* C12 as stated: Parse fails with the unclosed-quote error whenever the value of a node
\* or of an inline attribute, at any depth, opens a quote that its line does not close
UnclosedQuoteFails ==
  (pc # "start" /\ UnclosedLines(lines) # {}) => result.err = ErrUnclosedQuote

\* C12: Parse fails with the unclosed-quote error whenever the value of a node or of an
\* inline attribute, at any depth, opens a quote that its line does not close and no
\* earlier line fails
FirstUnclosedQuoteFails ==
  pc # "start" =>
    \A k \in UnclosedLines(lines) :
      (\A j \in FailingLines(lines) : j >= k) =>
        (result.err = ErrUnclosedQuote /\ result.doc = <<>>)

\* the quote is opened by the second inline attribute of a nested line
NestedAttributeOpensQuote ==
  /\ pc = "parsed" /\ result.err = ErrUnclosedQuote
  /\ \E k \in UnclosedLines(lines) :
       /\ \A j \in FailingLines(lines) : j >= k
       /\ AttrOpensQuote(At(lines, k)) /\ ~NodeOpensQuote(At(lines, k))
       /\ \E j \in 0..(k - 1) : readDepth(At(lines, j)) < readDepth(At(lines, k))

\* the line has no valid name character at its first column after the indentation
Nameless(line) ==
  readDepth(line) >= Len(line) \/ ~isValidNameChar(At(line, readDepth(line)))

NamelessLines(ls) == {k \in 0..(Len(ls) - 1) : StartsNode(ls, k) /\ Nameless(At(ls, k))}

\* C13 as stated: Parse fails with the invalid-node-name error whenever a line that has
\* to start a node has no valid name character at its first column after the indentation
NamelessLineFails ==
  (pc # "start" /\ NamelessLines(lines) # {}) => result.err = ErrNodeName

\* C13: Parse fails with the invalid-node-name error whenever a line that has to start a
\* node has no valid name character at its first column after the indentation and no
\* earlier line fails; a ':' line without a shallower line before it is such a line
FirstNamelessLineFails ==
  pc # "start" =>
    \A k \in NamelessLines(lines) :
      (\A j \in FailingLines(lines) : j >= k) =>
        (result.err = ErrNodeName /\ result.doc = <<>>)

\* an indented ':' line that follows a node line of its own depth
ColonLineWithoutParent ==
  /\ pc = "parsed" /\ result.err = ErrNodeName
  /\ \E k \in NamelessLines(lines) :
       /\ \A j \in FailingLines(lines) : j >= k
       /\ k > 0 /\ Colon(At(lines, k)) /\ readDepth(At(lines, k)) > 0

\* what the log of a parse says: the lines that became nodes, the line of the parent of
\* such a line, the lines taken by the node of a line as children and as continuations
NodeLines(log) == {log[i].line : i \in {j \in 1..Len(log) : log[j].kind = "child"}}

ParentOf(log, line) ==
  (CHOOSE e \in {log[i] : i \in 1..Len(log)} : e.kind = "child" /\ e.line = line).parent

TakenBy(log, line, kind) ==
  {log[i].line : i \in {j \in 1..Len(log) : log[j].kind = kind /\ log[j].parent = line}}

\* the node of a line in the tree: the children written on lines of their own come, in line
\* order, after the children written as inline attributes
RECURSIVE PtrOf(_, _, _)
PtrOf(log, root, line) ==
  IF line = RootLine THEN <<>>
  ELSE LET up == PtrOf(log, root, ParentOf(log, line))
           siblings == TakenBy(log, ParentOf(log, line), "child")
       IN Append(up, Len(NodeAt(root, up).Children) - Cardinality(siblings)
                       + Cardinality({l \in siblings : l <= line}))

\* the elements of a set of line numbers in increasing order
RECURSIVE InOrder(_)
InOrder(S) == IF S = {} THEN <<>> ELSE <<Least(S)>> \o InOrder(S \ {Least(S)})

\* the text of a continuation line: the ':' and one space after it removed
TextAfterColon(line) ==
  LET rest == TrimLeftSet(line, {" ", "\t"})
  IN IF Len(rest) >= 2 /\ rest[2] = " " THEN SubSeq(rest, 3, Len(rest))
     ELSE SubSeq(rest, 2, Len(rest))

RECURSIVE JoinLines(_)
JoinLines(texts) ==
  IF texts = <<>> THEN <<>>
  ELSE IF Len(texts) = 1 THEN texts[1]
  ELSE texts[1] \o <<"\n">> \o JoinLines(Tail(texts))

\* the node that the line gives when it is parsed on its own
Alone(line) == parseNode(<<line>>, 0, -1).node[1]

\* the value the node of a line should have: its inline value, if not empty, and the
\* texts of its continuation lines, joined by newlines
JoinedValue(ls, log, line) ==
  LET inline == Alone(At(ls, line)).Value
      cont == InOrder(TakenBy(log, line, "continuation"))
  IN JoinLines((IF inline # <<>> THEN <<inline>> ELSE <<>>)
               \o [i \in 1..Len(cont) |-> TextAfterColon(At(ls, cont[i]))])

\* C14: the value of a parsed node is its inline value, if not empty, followed by the
\* texts of the continuation lines below it, joined by single newlines, and its children
\* are its inline attributes and the nodes of the lines below it, none from a continuation
ContinuationsJoin ==
  (pc # "start" /\ result.err = NoError) =>
    \A k \in NodeLines(result.log) :
      LET node == NodeAt(tree, PtrOf(result.log, tree, k))
      IN /\ node.Value = JoinedValue(lines, result.log, k)
         /\ Len(node.Children) =
              Len(Alone(At(lines, k)).Children) + Cardinality(TakenBy(result.log, k, "child"))

\* the nodes below ptr in depth-first pre-order, ptr itself first
RECURSIVE PreOrder(_, _)
RECURSIVE PreOrderFrom(_, _, _)
PreOrderFrom(root, ptr, k) ==
  IF k > Len(NodeAt(root, ptr).Children) THEN <<>>
  ELSE PreOrder(root, Append(ptr, k)) \o PreOrderFrom(root, ptr, k + 1)

PreOrder(root, ptr) == <<ptr>> \o PreOrderFrom(root, ptr, 1)

Indented(n, text) == [i \in 1..n |-> " "] \o text \o <<"\n">>

RECURSIVE Concat(_)
Concat(texts) == IF texts = <<>> THEN <<>> ELSE Head(texts) \o Concat(Tail(texts))

\* what a node at depth d is written as, its children apart
Written(node, d) ==
  IF node.Value = <<>> THEN Indented(2 * d, node.Name)
  ELSE IF \A i \in 1..Len(node.Value) : node.Value[i] # "\n"
  THEN Indented(2 * d, node.Name \o <<":", " ">> \o node.Value)
  ELSE LET rows == Split(node.Value, "\n")
       IN Indented(2 * d, node.Name)
          \o Concat([i \in 1..Len(rows) |-> Indented(2 * (d + 1), <<":", " ">> \o rows[i])])

ValidPath(p) ==
  \A i \in 1..Len(Split(p, "/")) : Split(p, "/")[i] # <<>> /\ NameChars(Split(p, "/")[i])

\* C16: after a Set, SetInt or SetBool on a path made of names, the written document
\* parses, and Get of that path in it has the value that was set
ModifiedSurvives ==
  (pc = "reparsed" /\ op \in {"Set", "SetInt", "SetBool"} /\ ValidPath(path)) =>
    /\ again.err = NoError
    /\ LET root == again.doc[1].Root
           got == Get(root, <<<<>>>>, path)
       IN /\ got # <<>>
          /\ op = "Set" => NodeAt(root, got[1]).Value = val
          /\ op = "SetInt" => NodeInt(root, got, val + 1) = val
          /\ op = "SetBool" => NodeBool(root, got, ~val) = val

RECURSIVE AllNodes(_)
AllNodes(node) ==
  {node} \cup UNION {AllNodes(node.Children[k]) : k \in 1..Len(node.Children)}

\* C17: in a tree made by Parse and then Set, SetBool, SetInt, SetFloat and Remove calls
\* every node but the root has a name that is not empty and is made of name characters
NamesValid ==
  (pc # "start" /\ result.err = NoError) =>
    \A k \in 1..Len(tree.Children) :
      \A node \in AllNodes(tree.Children[k]) : node.Name # <<>> /\ NameChars(node.Name)

\* C18: in a document that Parse accepts the top-level nodes are written without
\* indentation and the nodes written on lines of their own under one parent are written
\* with equal indentation
SiblingsAligned ==
  (pc # "start" /\ result.err = NoError) =>
    /\ \A k \in TakenBy(result.log, RootLine, "child") : readDepth(At(lines, k)) = 0
    /\ \A p \in NodeLines(result.log) :
         \A j, k \in TakenBy(result.log, p, "child") :
           readDepth(At(lines, j)) = readDepth(At(lines, k))

RECURSIVE RawSplit(_, _)
RawSplit(text, cur) ==
  IF text = <<>> THEN <<cur>>
  ELSE IF Head(text) = "\n" THEN <<cur>> \o RawSplit(Tail(text), <<>>)
  ELSE IF Head(text) = "\r"
  THEN <<cur>> \o RawSplit(IF Len(text) >= 2 /\ text[2] = "\n" THEN Tail(Tail(text))
                            ELSE Tail(text), <<>>)
  ELSE RawSplit(Tail(text), Append(cur, Head(text)))

\* the lines that are kept when 'blank' are the white space characters of a line of white
\* space only and 'indent' those that may come before the '//' of a comment line
RECURSIVE Kept(_, _, _)
Kept(raw, blank, indent) ==
  IF raw = <<>> THEN <<>>
  ELSE LET line == Head(raw)
           drop == \/ \A i \in 1..Len(line) : line[i] \in blank
                   \/ HasPrefix(TrimLeftSet(line, indent), <<"/", "/">>)
       IN (IF drop THEN <<>> ELSE <<line>>) \o Kept(Tail(raw), blank, indent)

SpaceOrTab == {" ", "\t"}

RECURSIVE Marshallable(_)
Marshallable(v) ==
  CASE v.kind \in {"string", "bool", "int", "uint"} -> TRUE
    [] v.kind = "struct" ->
         \A k \in 1..Len(v.fields) :
           (v.fields[k].exported /\ v.fields[k].tag # <<>>) => Marshallable(v.fields[k].v)
    [] v.kind = "ptr" -> v.p # <<>> /\ Marshallable(v.p[1])
    [] OTHER -> FALSE

\* w has the value of v in every exported field with a tag, at every depth
RECURSIVE SameTagged(_, _)
SameTagged(v, w) ==
  CASE v.kind = "struct" ->
         \A k \in 1..Len(v.fields) :
           (v.fields[k].exported /\ v.fields[k].tag # <<>>) =>
             SameTagged(v.fields[k].v, w.fields[k].v)
    [] v.kind = "ptr" -> w.p # <<>> /\ SameTagged(v.p[1], w.p[1])
    [] OTHER -> w = v

\* the struct that Marshal was called with, directly or through a pointer
Written21 == IF val.kind = "ptr" /\ val.p # <<>> THEN val.p[1] ELSE val

StructOfThese == Written21.kind = "struct" /\ Marshallable(Written21)

\* C21: for a struct whose exported fields with a tag are strings, bools, integers, structs
\* of these or pointers that are not nil to these, Marshal succeeds, and Unmarshal of what
\* it wrote into a zero value of the type succeeds and gives every such field its value
MarshalRoundTrip ==
  /\ (pc = "marshalled" /\ StructOfThese) => ret.err = NoError
  /\ (pc = "unmarshalled" /\ StructOfThese) =>
       (ret.err = NoError /\ SameTagged(Written21, ret.v.p[1]))

\* the decimal text of the integer that a text of a sign and digits denotes: no '+', no
\* leading zeros, no '-' before 0
Canonical(text) ==
  LET neg == text[1] = "-"
      body == IF text[1] \in {"-", "+"} THEN Tail(text) ELSE text
      digits == IF TrimLeftSet(body, {"0"}) = <<>> THEN <<"0">> ELSE TrimLeftSet(body, {"0"})
  IN (IF neg /\ digits # <<"0">> THEN <<"-">> ELSE <<>>) \o digits

\* the integer field of the struct that v points to
FieldN(v) == LET n == v.p[1].fields[1].v IN IF n.kind = "int" THEN n.i ELSE n.u

IntoInteger(v) ==
  v.kind = "ptr" /\ v.p # <<>> /\ v.p[1].kind = "struct" /\ Len(v.p[1].fields) = 1
  /\ v.p[1].fields[1].v.kind \in {"int", "uint"}

\* C30: Unmarshal into an integer field of a given width stores the integer that the
\* trimmed text of the node denotes, or returns an error (a node without text stores
\* nothing); it never stores another value
UnmarshalStoresExactly ==
  (pc = "unmarshalled" /\ IntoInteger(val) /\ ret.err = NoError) =>
    LET text == TrimSpace(NodeAt(tree, <<1>>).Value)
    IN IF text = <<>> THEN FieldN(ret.v) = FieldN(val)
       ELSE Itoa(FieldN(ret.v)) = Canonical(text)

\* the line of the parent a node line should have: the nearest line before it that is not
\* a ':' line and is indented less, the root when there is none
Shallower(ls, k) ==
  {j \in 0..(k - 1) : ~Colon(At(ls, j)) /\ readDepth(At(ls, j)) < readDepth(At(ls, k))}

NearestShallower(ls, k) ==
  IF Shallower(ls, k) = {} THEN RootLine
  ELSE CHOOSE j \in Shallower(ls, k) : \A i \in Shallower(ls, k) : i <= j

\* C22: in a document that Parse accepts, the parent of the node of a line is the node of
\* the nearest line before it that is no continuation and is indented less, the root when
\* there is none, and the children of a parent written on lines of their own come in the
\* order of their lines, after its inline attributes
NearestShallowerParent ==
  (pc # "start" /\ result.err = NoError) =>
    \A k \in NodeLines(result.log) :
      LET node == NodeAt(tree, PtrOf(result.log, tree, k))
          alone == Alone(At(lines, k))
      IN /\ ParentOf(result.log, k) = NearestShallower(lines, k)
         /\ node.Name = alone.Name
         /\ SubSeq(node.Children, 1, Len(alone.Children)) = alone.Children

\* the first position from 'from' on where the line has one of the marks, the length of
\* the line when it has none (a mark is a text, as "//")
FirstMark(line, from, marks) ==
  LET at == {e \in from..(Len(line) - 1) :
               \E m \in marks : e + Len(m) <= Len(line) /\ Slice(line, e, e + Len(m)) = m}
  IN IF at = {} THEN Len(line) ELSE Least(at)

\* value is text without the spaces at its end
WithoutTrailingSpaces(value, text) ==
  /\ Len(value) <= Len(text) /\ SubSeq(text, 1, Len(value)) = value
  /\ \A i \in (Len(value) + 1)..Len(text) : text[i] = " "
  /\ value # <<>> => value[Len(value)] # " "

\* C23: called at a ':', the value micro-parser skips the colon and at most one space after
\* it, returns the text up to the first '//' of the rest of the line (or the end of the
\* line) without its trailing spaces, and leaves the cursor at that '//' or at the end of
\* the line, so that the attribute loop finds no attribute after a colon value
ColonValue ==
  (pc = "value" /\ val < Len(data) /\ At(data, val) = ":") =>
    LET from == IF val + 1 < Len(data) /\ At(data, val + 1) = " " THEN val + 2 ELSE val + 1
        stop == FirstMark(data, from, {<<"/", "/">>})
    IN /\ ret.err = NoError
       /\ ret.pos = stop
       /\ WithoutTrailingSpaces(ret.value, Slice(data, from, stop))
       /\ attrLoop(data, ret.pos, <<>>) = [children |-> <<>>, err |-> NoError]

\* a colon value that is cut at a comment marker and loses the space before it
ColonValueCutAtComment ==
  /\ pc = "value" /\ val < Len(data) /\ At(data, val) = ":"
  /\ ret.value = <<"x">> /\ ret.pos < Len(data) /\ At(data, ret.pos - 1) = " "

\* C24: called at an '=', the value micro-parser returns, when a '"' follows, the text
\* between that quote and the next '"' and leaves the cursor after the closing quote;
\* otherwise the characters up to the first space, '"' or end of line, and leaves the
\* cursor at that character; an '=' at the end of the line gives the empty value
EqualsValue ==
  (pc = "value" /\ val < Len(data) /\ At(data, val) = "=") =>
    LET p1 == val + 1
    IN IF p1 >= Len(data) THEN ret = [value |-> <<>>, pos |-> p1, err |-> NoError]
       ELSE IF At(data, p1) = "\""
       THEN LET close == FirstMark(data, p1 + 1, {<<"\"">>})
            IN close < Len(data) =>
                 ret = [value |-> Slice(data, p1 + 1, close), pos |-> close + 1,
                        err |-> NoError]
       ELSE LET stop == FirstMark(data, p1, {<<" ">>, <<"\"">>})
            IN ret = [value |-> Slice(data, p1, stop), pos |-> stop, err |-> NoError]

\* an unquoted value that ends at a quote
UnquotedValueEndsAtQuote ==
  /\ pc = "value" /\ val < Len(data) /\ At(data, val) = "="
  /\ ret.value # <<>> /\ ret.pos < Len(data) /\ At(data, ret.pos) = "\""
  /\ At(data, val + 1) # "\""

\* what the attributes of a line from pos on should give: after spaces, nothing at the end
\* of the line, at '//' and at a character that no name starts with; otherwise a child of
\* the name found there and its value, then what the rest of the line gives; an error
\* when a value fails
RECURSIVE ExpectedAttrs(_, _)
ExpectedAttrs(line, pos) ==
  LET start == Least({e \in pos..Len(line) : e < Len(line) => At(line, e) # " "})
  IN IF start >= Len(line) \/ HasPrefix(SliceFrom(line, start), <<"/", "/">>)
        \/ ~isValidNameChar(At(line, start))
     THEN [children |-> <<>>, err |-> NoError]
     ELSE
       LET after == Least({e \in (start + 1)..Len(line) :
                             e < Len(line) => ~isValidNameChar(At(line, e))})
           v == IF after < Len(line) /\ At(line, after) \in {":", "="}
                THEN parseValue(line, after)
                ELSE [value |-> <<>>, pos |-> after, err |-> NoError]
           rest == ExpectedAttrs(line, v.pos)
       IN IF v.err # NoError THEN [children |-> <<>>, err |-> v.err]
          ELSE [children |-> <<Node(Slice(line, start, after), v.value, <<>>)>> \o rest.children,
                err |-> rest.err]

\* C25: after the name and the inline value of a node, the attribute loop adds one child,
\* a name and a value, for each attribute from left to right, and stops without an error
\* at the end of the line, at '//' and at the first character after spaces that no name
\* starts with; when the value of an attribute fails, the node fails with that error
AttributeLoop ==
  (pc # "start" /\ Len(lines) = 1 /\ LineErr(lines[1]) \in {NoError, ErrUnclosedQuote}) =>
    LET line == lines[1]
        v == valueAt(line, scanName(line, readDepth(line)))
        expected == ExpectedAttrs(line, v.pos)
    IN v.err = NoError =>
         IF expected.err # NoError
         THEN result.err = expected.err /\ result.doc = <<>>
         ELSE /\ result.err = NoError
              /\ Len(tree.Children) = 1
              /\ tree.Children[1].Children = expected.children

\* an attribute with a quoted value that has a space in it, then a stop at an '='
QuotedAttributeThenStop ==
  /\ pc = "parsed" /\ result.err = NoError /\ Len(lines) = 1
  /\ tree.Children[1].Children = <<Node(<<"c">>, <<"x", " ", "y">>, <<>>)>>
  /\ lines[1][Len(lines[1]) - 1] = "="

\* the node with the value set at the end of the segments: at each segment the first child
\* of that name is taken, and a child of that name with no value is added after the other
\* children when there is none
RECURSIVE SetIn(_, _, _)
SetIn(node, segs, value) ==
  IF segs = <<>> THEN [node EXCEPT !.Value = value]
  ELSE LET found == Named(node.Children, Head(segs))
       IN IF found = {}
          THEN [node EXCEPT !.Children =
                  Append(@, SetIn(Node(Head(segs), <<>>, <<>>), Tail(segs), value))]
          ELSE [node EXCEPT !.Children[Least(found)] = SetIn(@, Tail(segs), value)]

\* C26: Set assigns the value to the node at the final segment, adds each missing node of
\* the path with an empty value after the children of its parent, changes nothing else in
\* the tree and returns that node; on a nil receiver it changes nothing and returns nil
SetFrame ==
  op = "Set" =>
    IF recv = <<>> THEN ret = <<>> /\ tree = before
    ELSE IF SegmentsOf(path) = <<>> THEN ret = recv /\ tree = before
    ELSE /\ tree = ReplaceAt(before, recv[1],
                             SetIn(NodeAt(before, recv[1]), SegmentsOf(path), val))
         /\ ret = Walk(tree, recv[1], SegmentsOf(path))

\* C27: Parse returns no error, the invalid-node-name error or the unclosed-quote error;
\* it never returns the unexpected-end-of-input and invalid-indentation errors that a
\* call of parseNode can give
ParseErrors ==
  /\ pc # "start" => result.err \in {NoError, ErrNodeName, ErrUnclosedQuote}
  /\ pc = "reparsed" => again.err \in {NoError, ErrNodeName, ErrUnclosedQuote}

\* Parse fails on a line without a name, and parseNode called on the lines gives the
\* invalid-indentation error
OtherErrorFromParseNode ==
  /\ pc = "node" /\ result.err = ErrNodeName
  /\ direct.r.err = ErrIndentation /\ Len(lines) = 2

\* the lines of a log come in increasing order, from line 'from' on and before line 'to'
Increasing(log, from, to) ==
  /\ \A i \in 1..Len(log) : from <= log[i].line /\ log[i].line < to
  /\ \A i, j \in 1..Len(log) : i < j => log[i].line < log[j].line

OnePass ==
  pc # "start" =>
    /\ (result.doc = <<>>) # (result.err = NoError)
    /\ Increasing(result.log, 0, Len(lines))
    /\ (pc = "node" /\ direct.index < Len(lines)) =>
         /\ direct.index < direct.r.index /\ direct.r.index <= Len(lines)
         /\ Increasing(direct.r.log, direct.index + 1, direct.r.index)

\* C28: Parse ends on every input, with a document or with an error; a call of parseNode
\* with a line left takes at least that line, also when it fails, and the lines are taken
\* in increasing order, each at most once
ParseTerminates == []OnePass /\ (pc = "start" ~> pc = "parsed")

\* a call of parseNode takes its line and fails on the deeper line after it, which it
\* takes too
FailedOnSecondLine ==
  /\ pc = "node" /\ direct.index = 0 /\ direct.r.index = 2
  /\ direct.r.err = ErrUnclosedQuote

\* the number of inline attributes written on the lines of S
RECURSIVE InlineAttributes(_, _)
InlineAttributes(ls, S) ==
  IF S = {} THEN 0
  ELSE Len(Alone(At(ls, Least(S))).Children) + InlineAttributes(ls, S \ {Least(S)})

\* C29: after a successful Parse every normalized line is taken exactly once: a line that
\* starts with ':' as a continuation of the value of one node, every other line as the line
\* of one node; the tree has, the root apart, as many nodes as there are lines that are
\* not continuations plus inline attributes on them
LinesConsumedOnce ==
  (pc # "start" /\ result.err = NoError) =>
    /\ \A k \in 0..(Len(lines) - 1) :
         Cardinality({i \in 1..Len(result.log) : result.log[i].line = k}) = 1
    /\ \A i \in 1..Len(result.log) :
         LET e == result.log[i]
         IN /\ e.line \in 0..(Len(lines) - 1)
            /\ e.kind \in {"child", "continuation"}
            /\ (e.kind = "continuation") <=> Colon(At(lines, e.line))
            /\ e.parent \in NodeLines(result.log) \cup {RootLine}
            /\ e.parent < e.line
            /\ e.kind = "continuation" => e.parent # RootLine
    /\ Len(PreOrder(tree, <<>>)) - 1 =
         Cardinality(NodeLines(result.log)) + InlineAttributes(lines, NodeLines(result.log))

\* three lines parse into three nodes: two node lines, one of them with an inline
\* attribute, and a continuation line between them
TwoLinesOneAttribute ==
  /\ pc = "parsed" /\ result.err = NoError /\ Len(lines) = 3
  /\ Cardinality(NodeLines(result.log)) = 2
  /\ \E i \in 1..Len(result.log) : result.log[i].kind = "continuation" /\ result.log[i].line = 1
  /\ InlineAttributes(lines, NodeLines(result.log)) = 1
  /\ Len(PreOrder(tree, <<>>)) = 4

====
